---- MODULE Spec2Model ----
(***************************************************************************)
(* gitlab-ci-pipelines-exporter (src/main.go): the scheduler loop `task`,  *)
(* the polling goroutines `taskOnce`, and the four metric vectors they     *)
(* write.  The GitLab API is a data source: every response is an input     *)
(* drawn from a small set at the step that makes the call.                 *)
(***************************************************************************)
EXTENDS Integers, Sequences, FiniteSets, Bags, TLC

(* ---------------------------------------------------------------- bounds *)

\* goroutines of taskOnce alive in a state that is explored further (the code
\* sets no limit: a state with more is reached and not stepped from)
MaxTasks == 2
\* pipeline ids of the busy platform are 1..MaxId
MaxId == 2
\* pipeline durations of the busy platform are 0..MaxDuration (seconds)
MaxDuration == 1
\* clock readings and creation times of the busy platform are 0..MaxNow (ticks)
MaxNow == 1

(* ------------------------------------------------------- static inputs  *)

\* time.Second, in clock ticks: a tick is half a second
Second == 2

ProjectNames == {"a", "b"}
Refs == {"main", "dev"}

\* every target: a (project, ref) pair
Targets == ProjectNames \X Refs

\* the identity of the target a goroutine polls
Key(p) == <<p.name, p.ref>>

\* config.Projects after yaml.Unmarshal: one literal entry, one wildcard
Configured ==
  << [name |-> "a", ref |-> "main"], [name |-> "*", ref |-> "dev"] >>

\* config.Projects with the literal entry alone
ConfiguredLiteral == << [name |-> "a", ref |-> "main"] >>

\* config.Projects with a literal entry that the wildcard entry also covers
ConfiguredTwice ==
  << [name |-> "a", ref |-> "main"], [name |-> "*", ref |-> "main"] >>

\* PathWithNamespace lists that ListProjects(Owned) may answer with
OwnedAnswers == { <<"a">>, <<"a", "b">> }

\* the loop also goes over a status value the exporter does not track
RecognizedAndPending == <<"success", "failed", "running", "pending">>

\* the status label values of the loop at line 114, in its order
Recognized == <<"success", "failed", "running">>

\* gp.ID of a project path
ProjectID(name) == IF name = "a" THEN 1 ELSE 2

\* what the platform can answer about one target: the ids and statuses of its
\* pipelines, their durations and creation times (<<>> is a nil CreatedAt),
\* and the clock readings at the moment of time.Since
NoPipelines ==
  [ids |-> {}, statuses |-> {}, durations |-> {}, created |-> {}, nows |-> {}]

\* a target with one pipeline that is running
RunningPipeline ==
  [ids |-> {1}, statuses |-> {"running"},
   durations |-> {0}, created |-> {<< >>, <<0>>}, nows |-> {0}]

\* a target with one pipeline that runs and succeeds
OnePipeline ==
  [ids |-> {1}, statuses |-> {"running", "success"},
   durations |-> {0}, created |-> {<< >>, <<0>>}, nows |-> {0}]

\* a target with one pipeline that is pending, runs and succeeds
OnePipelinePending ==
  [ids |-> {1}, statuses |-> {"running", "pending", "success"},
   durations |-> {0}, created |-> {<< >>, <<0>>}, nows |-> {0}]

\* a target with several pipelines of every status, duration and age
ManyPipelines ==
  [ids |-> 1..MaxId, statuses |-> {"success", "failed", "running", "pending"},
   durations |-> 0..MaxDuration,
   created |-> {<< >>} \cup {<<n>> : n \in 0..MaxNow}, nows |-> 0..MaxNow]

\* the target the platform has pipelines for
Busy == <<"a", "main">>

(* ------------------------------------------------------ metric vectors  *)
(* A vector is a map from label tuples to values; a series that was never  *)
(* touched is not in its domain.                                           *)

\* a vector after prometheus.NewGaugeVec / NewCounterVec: no series
NewVec == [l \in {} |-> 0]

\* vec.WithLabelValues(lvs...): the series is created at 0 when missing
WithLabelValues(vec, lvs) ==
  IF lvs \in DOMAIN vec THEN vec
  ELSE [l \in DOMAIN vec \cup {lvs} |-> IF l = lvs THEN 0 ELSE vec[l]]

\* vec.WithLabelValues(lvs...).Set(v)
Set(vec, lvs, v) ==
  [l \in DOMAIN vec \cup {lvs} |-> IF l = lvs THEN v ELSE vec[l]]

\* vec.WithLabelValues(lvs...).Inc()
Inc(vec, lvs) ==
  [l \in DOMAIN vec \cup {lvs} |->
     IF l = lvs THEN WithLabelValues(vec, lvs)[lvs] + 1 ELSE vec[l]]

\* the ref label hard-coded instead of taken from the target
LabelsNoRef(p) == <<p.name, "main">>

\* the label values (p.Name, p.Ref) of the three two-label vectors
Labels(p) == <<p.name, p.ref>>

\* the label values (p.Name, p.Ref, s) of the status vector
StatusLabels(p, s) == <<p.name, p.ref, s>>

(* ---------------------------------------------------------------- time  *)

\* d.Round(time.Second): to the nearest second, halves away from zero
Round(d) ==
  IF d >= 0 THEN ((d + (Second \div 2)) \div Second) * Second
  ELSE -(((-d + (Second \div 2)) \div Second) * Second)

\* d.Seconds() of a whole number of seconds
Seconds(d) == IF d >= 0 THEN d \div Second ELSE -((-d) \div Second)

\* float64(time.Since(created).Round(time.Second).Seconds()) at clock now
SinceSeconds(created, now) == Seconds(Round(now - created))

(* --------------------------------------------------------------- state  *)

VARIABLES
  config,            \* config.Projects, fixed at startup
  gitlab,            \* per target, what the platform can answer; fixed
  timeSinceLastRun,  \* gitlab_ci_pipeline_time_since_last_run_seconds{project,ref}
  lastRunDuration,   \* gitlab_ci_pipeline_last_run_duration_seconds{project,ref}
  runCount,          \* gitlab_ci_pipeline_run_count{project,ref}
  status,            \* gitlab_ci_pipeline_status{project,ref,status}
  tasks,             \* the bag of live taskOnce goroutines (their locals)
  schedPc,           \* where the goroutine of task is: "range", "sleep", "fatal"
  idx,               \* the index of the range over config.Projects
  proc,              \* the process: "running", "fatal" (os.Exit), "panic"
  mainPc,            \* where the goroutine of main is: "serve", "fatal"
  stored,            \* history: per target, the snapshot of its last completed poll
  resolved           \* history: per config entry, the ListProjects answer this cycle

vars ==
  << config, gitlab, timeSinceLastRun, lastRunDuration, runCount, status, tasks,
     schedPc, idx, proc, mainPc, stored, resolved >>

inputVars == << config, gitlab >>
metricVars == << timeSinceLastRun, lastRunDuration, runCount, status >>
schedVars == << schedPc, idx, resolved >>

\* the answers of ListProjectPipelines: no pipeline, or the newest one
PipelineLists(p) ==
  { <<>> } \cup
  { << [id |-> i, status |-> st] >> :
      i \in gitlab[Key(p)].ids, st \in gitlab[Key(p)].statuses }

\* the answers of GetPipeline(gp.ID, id) without error
PipelineDetails(p, id) ==
  { << [id |-> id, status |-> st, duration |-> d, created |-> c] >> :
      st \in gitlab[Key(p)].statuses, d \in gitlab[Key(p)].durations,
      c \in gitlab[Key(p)].created }

\* the locals of a goroutine started by `go taskOnce(p, config, gc)`
NewTask(p) ==
  [ p |-> p, pc |-> "getProject", gp |-> 0,
    pipelines |-> <<>>,      \* the answer of ListProjectPipelines
    lastPipeline |-> <<>>,   \* var lastPipeline *gitlab.Pipeline (nil)
    s |-> 0,                 \* the index of the range over the status values
    rc0 |-> 0,               \* history: run_count when the list was answered
    wrote |-> {} ]           \* history: the metric families this poll created or set

\* the number of goroutines in bag B that poll target k
AliveIn(B, k) ==
  BagCardinality([t \in {u \in BagToSet(B) : Key(u.p) = k} |-> B[t]])

\* the number of live goroutines polling target k
Alive(k) == AliveIn(tasks, k)

\* one goroutine moves from locals t to locals u
Step(t, u) == tasks' = (tasks (-) SetToBag({t})) (+) SetToBag({u})

\* the state after main has parsed cfg and registered the vectors
Start(cfg, platform) ==
  /\ config = cfg
  /\ gitlab = platform
  /\ timeSinceLastRun = NewVec
  /\ lastRunDuration = NewVec
  /\ runCount = NewVec
  /\ status = NewVec
  /\ tasks = EmptyBag
  /\ schedPc = "range"
  /\ idx = 1
  /\ proc = "running"
  /\ mainPc = "serve"
  /\ stored = [k \in Targets |-> << >>]
  /\ resolved = [j \in 1..Len(cfg) |-> << >>]

\* both entries configured; the platform has one pipeline, for the busy target
Init ==
  Start(Configured,
        [k \in Targets |-> IF k = Busy THEN RunningPipeline ELSE NoPipelines])

\* both entries configured; the pipeline of the busy target runs and succeeds
InitRace ==
  Start(Configured, [k \in Targets |-> IF k = Busy THEN OnePipeline ELSE NoPipelines])

\* both entries configured; the pipeline of the busy target can also be pending
InitSolo ==
  Start(Configured,
        [k \in Targets |-> IF k = Busy THEN OnePipelinePending ELSE NoPipelines])

\* the literal entry names a project and ref that the wildcard entry resolves to
InitTwice ==
  Start(ConfiguredTwice,
        [k \in Targets |-> IF k = Busy THEN OnePipeline ELSE NoPipelines])

\* the literal entry alone; the platform has many pipelines for it
InitPoll ==
  Start(ConfiguredLiteral,
        [k \in Targets |-> IF k = Busy THEN ManyPipelines ELSE NoPipelines])

(* ------------------------------------------------------------- taskOnce *)
(* A goroutine takes one step per access to the metric vectors; the answer *)
(* of an API call is an input of the step that uses it.                    *)

\* os.Exit ends the calling goroutine alone
RunningAfterExit == proc \in {"running", "fatal"}

\* the process has not ended: its goroutines take steps
Running == proc = "running"

\* log.Fatalf: the process exits with status 1
Fatalf == "fatal"

\* a nil pointer dereference in a goroutine: the runtime ends the process
Panic == "panic"

\* line 95, runCount.WithLabelValues(p.Name, p.Ref)
RunCountWithLabels(p) == WithLabelValues(runCount, Labels(p))

\* lines 91-95, getProject answers: gp is the project, the counter series exists
GetProjectOk(t) ==
  /\ Running /\ t.pc = "getProject"
  /\ runCount' = RunCountWithLabels(t.p)
  /\ Step(t, [t EXCEPT !.pc = "list", !.gp = ProjectID(t.p.name),
                       !.wrote = IF runCount' = runCount THEN @
                                 ELSE @ \cup {"run_count"}])
  /\ UNCHANGED << inputVars, mainPc, timeSinceLastRun, lastRunDuration, status, schedVars, proc, stored >>

\* lines 81-83, getProject fails: the goroutine enters log.Fatalf, which
\* writes the log line before it exits the process
GetProjectErr(t) ==
  /\ Running /\ t.pc = "getProject"
  /\ Step(t, [t EXCEPT !.pc = "fatal"])
  /\ UNCHANGED << inputVars, mainPc, metricVars, schedVars, proc, stored >>

\* line 105: the condition under which the snapshot is fetched again
Differs(lastPipeline, pipelines) ==
  \/ lastPipeline = << >>
  \/ lastPipeline[1].id # pipelines[1].id
  \/ lastPipeline[1].status # pipelines[1].status

\* the nil test the wrong way round
KnownInverted(lastPipeline) == lastPipeline = << >>

\* line 106: lastPipeline != nil
Known(lastPipeline) == lastPipeline # << >>

\* lines 97-108, ListProjectPipelines answers: return when the list is empty,
\* count a run when a snapshot was known and differs from the newest pipeline
ListProjectPipelinesOk(t) ==
  /\ Running /\ t.pc = "list"
  /\ \E ans \in PipelineLists(t.p) :
       IF Len(ans) = 0
       THEN /\ tasks' = tasks (-) SetToBag({t})
            /\ runCount' = runCount
       ELSE LET counts == Differs(t.lastPipeline, ans) /\ Known(t.lastPipeline)
            IN
            /\ runCount' = IF counts THEN Inc(runCount, Labels(t.p)) ELSE runCount
            /\ Step(t, [t EXCEPT
                 !.pipelines = ans,
                 !.pc = IF Differs(t.lastPipeline, ans) THEN "detail" ELSE "time",
                 !.rc0 = runCount[Labels(t.p)],
                 !.wrote = IF counts THEN @ \cup {"run_count"} ELSE @])
  /\ UNCHANGED << inputVars, mainPc, timeSinceLastRun, lastRunDuration, status, schedVars, proc, stored >>

\* lines 98-99, ListProjectPipelines fails: the goroutine enters log.Fatalf
ListProjectPipelinesErr(t) ==
  /\ Running /\ t.pc = "list"
  /\ Step(t, [t EXCEPT !.pc = "fatal"])
  /\ UNCHANGED << inputVars, mainPc, metricVars, schedVars, proc, stored >>

\* *lastPipeline as GetPipeline answered it
Detail(pl) == << pl >>

\* the fields of *lastPipeline that the lines after line 112 read
Snapshot(pl) == << [id |-> pl.id, status |-> pl.status, created |-> pl.created] >>

\* line 110 and the first call of line 112, GetPipeline answers: lastPipeline
\* is the answer, lastRunDuration.WithLabelValues creates the series if missing
GetPipelineOk(t) ==
  /\ Running /\ t.pc = "detail"
  /\ lastRunDuration' = WithLabelValues(lastRunDuration, Labels(t.p))
  /\ \E ans \in PipelineDetails(t.p, t.pipelines[1].id) :
       Step(t, [t EXCEPT !.lastPipeline = Detail(ans[1]), !.pc = "duration",
                         !.wrote = IF lastRunDuration' = lastRunDuration THEN @
                                   ELSE @ \cup {"last_run_duration"}])
  /\ UNCHANGED << inputVars, mainPc, timeSinceLastRun, runCount, status, schedVars, proc, stored >>

\* line 110 and the first call of line 112, GetPipeline fails: the error is
\* dropped, lastPipeline is nil, lastRunDuration.WithLabelValues creates the
\* series if missing
GetPipelineErr(t) ==
  /\ Running /\ t.pc = "detail"
  /\ lastRunDuration' = WithLabelValues(lastRunDuration, Labels(t.p))
  /\ Step(t, [t EXCEPT !.lastPipeline = << >>, !.pc = "duration",
                       !.wrote = IF lastRunDuration' = lastRunDuration THEN @
                                 ELSE @ \cup {"last_run_duration"}])
  /\ UNCHANGED << inputVars, mainPc, timeSinceLastRun, runCount, status, schedVars, proc, stored >>

\* line 112, .Set(float64(lastPipeline.Duration))
SetLastRunDuration(t) ==
  /\ Running /\ t.pc = "duration"
  /\ t.lastPipeline # << >>
  /\ lastRunDuration' = Set(lastRunDuration, Labels(t.p), t.lastPipeline[1].duration)
  /\ Step(t, [t EXCEPT !.lastPipeline = Snapshot(t.lastPipeline[1]),
                       !.pc = "status", !.s = 1,
                       !.wrote = @ \cup {"last_run_duration"}])
  /\ UNCHANGED << inputVars, mainPc, timeSinceLastRun, runCount, status, schedVars, proc, stored >>

\* line 112 with lastPipeline nil: lastPipeline.Duration panics
SetLastRunDurationNil(t) ==
  /\ Running /\ t.pc = "duration"
  /\ t.lastPipeline = << >>
  /\ Step(t, [t EXCEPT !.pc = "panic"])
  /\ UNCHANGED << inputVars, mainPc, metricVars, schedVars, proc, stored >>

\* the two branches exchanged
StatusValueInverted(s, lastPipeline) == IF s = lastPipeline.status THEN 0 ELSE 1

\* lines 115-119: the value the gauge of status value s is set to
StatusValue(s, lastPipeline) == IF s = lastPipeline.status THEN 1 ELSE 0

\* lines 116 and 118, status.WithLabelValues(p.Name, p.Ref, s) when the series
\* is missing: it is created at 0 and the goroutine stands before .Set (when
\* the series exists the call only finds it)
StatusWithLabelValues(t) ==
  /\ Running /\ t.pc = "status"
  /\ StatusLabels(t.p, Recognized[t.s]) \notin DOMAIN status
  /\ status' = WithLabelValues(status, StatusLabels(t.p, Recognized[t.s]))
  /\ Step(t, [t EXCEPT !.pc = "set", !.wrote = @ \cup {"status"}])
  /\ UNCHANGED << inputVars, mainPc, timeSinceLastRun, lastRunDuration, runCount, schedVars, proc, stored >>

\* lines 114-120, .Set(1) or .Set(0) of one turn of the range over "success",
\* "failed", "running"
SetStatus(t) ==
  /\ Running
  /\ \/ t.pc = "status" /\ StatusLabels(t.p, Recognized[t.s]) \in DOMAIN status
     \/ t.pc = "set"
  /\ status' = Set(status, StatusLabels(t.p, Recognized[t.s]),
                   StatusValue(Recognized[t.s], t.lastPipeline[1]))
  /\ Step(t, [t EXCEPT !.pc = IF t.s = Len(Recognized) THEN "time" ELSE "status",
                       !.s = IF t.s = Len(Recognized) THEN 0 ELSE t.s + 1,
                       !.wrote = @ \cup {"status"}])
  /\ UNCHANGED << inputVars, mainPc, timeSinceLastRun, lastRunDuration, runCount, schedVars, proc, stored >>

\* line 123, timeSinceLastRun.WithLabelValues(p.Name, p.Ref) when the series
\* is missing: it is created at 0
TimeSinceLastRunWithLabelValues(t) ==
  /\ Running /\ t.pc = "time"
  /\ Labels(t.p) \notin DOMAIN timeSinceLastRun
  /\ timeSinceLastRun' = WithLabelValues(timeSinceLastRun, Labels(t.p))
  /\ Step(t, [t EXCEPT !.wrote = @ \cup {"time_since_last_run"}])
  /\ UNCHANGED << inputVars, mainPc, lastRunDuration, runCount, status, schedVars, proc, stored >>

\* lines 123-125, .Set(time.Since(*lastPipeline.CreatedAt)...) and taskOnce
\* returns
SetTimeSinceLastRun(t) ==
  /\ Running /\ t.pc = "time"
  /\ Labels(t.p) \in DOMAIN timeSinceLastRun
  /\ t.lastPipeline # << >> /\ t.lastPipeline[1].created # << >>
  /\ \E now \in gitlab[Key(t.p)].nows :
       timeSinceLastRun' =
         Set(timeSinceLastRun, Labels(t.p),
             SinceSeconds(t.lastPipeline[1].created[1], now))
  /\ tasks' = tasks (-) SetToBag({t})
  /\ stored' = [stored EXCEPT ![Key(t.p)] =
                  << [id |-> t.lastPipeline[1].id,
                      status |-> t.lastPipeline[1].status] >>]
  /\ UNCHANGED << inputVars, mainPc, lastRunDuration, runCount, status, schedVars, proc >>

\* line 123 with lastPipeline or CreatedAt nil: after WithLabelValues the
\* dereference in the argument of time.Since panics
SetTimeSinceLastRunNil(t) ==
  /\ Running /\ t.pc = "time"
  /\ Labels(t.p) \in DOMAIN timeSinceLastRun
  /\ (t.lastPipeline = << >> \/ t.lastPipeline[1].created = << >>)
  /\ Step(t, [t EXCEPT !.pc = "panic"])
  /\ UNCHANGED << inputVars, mainPc, metricVars, schedVars, proc, stored >>

\* every step of every goroutine of taskOnce
taskOnce ==
  \/ \E t \in BagToSet(tasks) : GetProjectOk(t)
  \/ \E t \in BagToSet(tasks) : GetProjectErr(t)
  \/ \E t \in BagToSet(tasks) : ListProjectPipelinesOk(t)
  \/ \E t \in BagToSet(tasks) : ListProjectPipelinesErr(t)
  \/ \E t \in BagToSet(tasks) : GetPipelineOk(t)
  \/ \E t \in BagToSet(tasks) : GetPipelineErr(t)
  \/ \E t \in BagToSet(tasks) : SetLastRunDuration(t)
  \/ \E t \in BagToSet(tasks) : SetLastRunDurationNil(t)
  \/ \E t \in BagToSet(tasks) : StatusWithLabelValues(t)
  \/ \E t \in BagToSet(tasks) : SetStatus(t)
  \/ \E t \in BagToSet(tasks) : TimeSinceLastRunWithLabelValues(t)
  \/ \E t \in BagToSet(tasks) : SetTimeSinceLastRun(t)
  \/ \E t \in BagToSet(tasks) : SetTimeSinceLastRunNil(t)

(* ----------------------------------------------------------------- task *)

\* the range over the owned projects misses the first one
ExpandSkipsFirst(p, projects) ==
  [n \in 1..(Len(projects) - 1) |->
     [name |-> projects[n + 1].PathWithNamespace, ref |-> p.ref]]

\* lines 137-139: one target per owned project, each with the entry's ref
Expand(p, projects) ==
  [n \in 1..Len(projects) |-> [name |-> projects[n].PathWithNamespace, ref |-> p.ref]]

\* the goroutines that `go taskOnce(...)` starts for a list of targets
Go(targets) ==
  [t \in {NewTask(targets[n]) : n \in 1..Len(targets)} |->
     Cardinality({n \in 1..Len(targets) : NewTask(targets[n]) = t})]

\* the goroutines of a config entry start; the range moves to the next entry
Launch(targets) ==
  /\ tasks' = tasks (+) Go(targets)
  /\ idx' = idx + 1
  /\ schedPc' = IF idx = Len(config) THEN "sleep" ELSE "range"

\* lines 140-142: a literal entry, go taskOnce(p, config, gc)
LaunchLiteral ==
  /\ Running /\ schedPc = "range"
  /\ config[idx].name # "*"
  /\ Launch(<< config[idx] >>)
  /\ UNCHANGED << inputVars, mainPc, metricVars, proc, stored, resolved >>

\* lines 130-139: a wildcard entry, ListProjects(Owned) answers
LaunchWildcard ==
  /\ Running /\ schedPc = "range"
  /\ config[idx].name = "*"
  /\ \E ans \in OwnedAnswers :
       /\ resolved' = [resolved EXCEPT ![idx] = ans]
       /\ Launch(Expand(config[idx],
                        [n \in 1..Len(ans) |-> [PathWithNamespace |-> ans[n]]]))
  /\ UNCHANGED << inputVars, mainPc, metricVars, proc, stored >>

\* lines 132-134: ListProjects fails, the scheduler enters log.Fatalf
ListProjectsErr ==
  /\ Running /\ schedPc = "range"
  /\ config[idx].name = "*"
  /\ schedPc' = "fatal"
  /\ UNCHANGED << inputVars, mainPc, metricVars, tasks, idx, proc, stored, resolved >>

\* the scheduler joins its goroutines before the next cycle
SleepJoined ==
  /\ Running /\ schedPc = "sleep"
  /\ tasks = EmptyBag
  /\ schedPc' = "range"
  /\ idx' = 1
  /\ resolved' = [j \in 1..Len(config) |-> << >>]
  /\ UNCHANGED << inputVars, mainPc, metricVars, tasks, proc, stored >>

\* line 144 and back to line 129: time.Sleep returns, the next cycle starts
Sleep ==
  /\ Running /\ schedPc = "sleep"
  /\ schedPc' = "range"
  /\ idx' = 1
  /\ resolved' = [j \in 1..Len(config) |-> << >>]
  /\ UNCHANGED << inputVars, mainPc, metricVars, tasks, proc, stored >>

\* the scheduler goroutine
task == LaunchLiteral \/ LaunchWildcard \/ ListProjectsErr \/ Sleep

\* line 187, http.ListenAndServe returns an error: the goroutine of main
\* enters log.Fatal
ListenAndServeErr ==
  /\ Running /\ mainPc = "serve"
  /\ mainPc' = "fatal"
  /\ UNCHANGED << inputVars, metricVars, tasks, schedVars, proc, stored >>

\* the goroutine of main once task is started
main == ListenAndServeErr

\* lines 84, 100, 135 by way of log.Fatalf and line 187 by way of log.Fatal:
\* a goroutine that entered log.Fatalf has written its log line and calls
\* os.Exit(1); until then the other goroutines go on
Exit ==
  /\ Running
  /\ \/ mainPc = "fatal"
     \/ schedPc = "fatal"
     \/ \E t \in BagToSet(tasks) : t.pc = "fatal"
  /\ proc' = Fatalf
  /\ UNCHANGED << inputVars, mainPc, metricVars, tasks, schedVars, stored >>

\* the runtime has printed the panic of a goroutine and ends the process;
\* until then the other goroutines go on
Crash ==
  /\ Running
  /\ \E t \in BagToSet(tasks) : t.pc = "panic"
  /\ proc' = Panic
  /\ UNCHANGED << inputVars, mainPc, metricVars, tasks, schedVars, stored >>

\* the states that are explored further: at most MaxTasks goroutines of
\* taskOnce, ended in log.Fatalf or not, are alive
Bounded == BagCardinality(tasks) <= MaxTasks

Next == Bounded /\ (main \/ task \/ taskOnce \/ Exit \/ Crash)

\* the program: the scheduler and its goroutines, in any interleaving
Spec == Init /\ [][Next]_vars

\* the program on a platform whose pipeline changes status between two polls
SpecRace == InitRace /\ [][Next]_vars

\* no target has two live goroutines
NoOverlap == \A k \in Targets : Alive(k) <= 1

\* a literal entry is handled when its target has no live goroutine
LaunchLiteralSolo == LaunchLiteral /\ NoOverlap'

\* a wildcard entry is handled when its targets have no live goroutine
LaunchWildcardSolo == LaunchWildcard /\ NoOverlap'

NextSolo ==
  \/ LaunchLiteralSolo \/ LaunchWildcardSolo \/ ListProjectsErr \/ Sleep
  \/ taskOnce
  \/ Exit \/ Crash

\* the runs of the program in which the polls of one target never overlap
\* (every poll ends before the next cycle reaches its target)
SpecSolo == InitSolo /\ [][NextSolo]_vars

\* the program configured with an entry that a wildcard covers as well
SpecTwice == InitTwice /\ [][Next]_vars

NextPoll ==
  \/ LaunchLiteralSolo \/ Sleep
  \/ taskOnce
  \/ Exit \/ Crash

\* the runs of the program configured with one literal target, polled again
\* and again without overlap, on a platform with many pipelines
SpecPoll == InitPoll /\ [][NextPoll]_vars

(* --------------------------------------------------------------- claims *)

\* the goroutines polling target k
TasksOf(k) == {t \in BagToSet(tasks) : Key(t.p) = k}

\* goroutine t takes the step
Moved(t) == CopiesIn(t, tasks') < CopiesIn(t, tasks)

\* goroutine t takes its last step: line 123 is done and taskOnce returns
PollEnds(t) ==
  t.pc = "time" /\ Moved(t) /\ BagCardinality(tasks') < BagCardinality(tasks)

\* the target of t is Seen and the newest pipeline t listed differs from the
\* stored snapshot in id or in status
NewestDiffers(t) ==
  /\ stored[Key(t.p)] # << >>
  /\ t.pipelines # << >>
  /\ \/ t.pipelines[1].id # stored[Key(t.p)][1].id
     \/ t.pipelines[1].status # stored[Key(t.p)][1].status

\* the target of t is Seen and the newest pipeline t listed has the id and the
\* status of the stored snapshot
NewestSame(t) ==
  /\ stored[Key(t.p)] # << >>
  /\ t.pipelines # << >>
  /\ t.pipelines[1].id = stored[Key(t.p)][1].id
  /\ t.pipelines[1].status = stored[Key(t.p)][1].status

\* C1: a poll of a Seen target whose newest pipeline differs from the stored
\* snapshot in id or status ends with run_count one above its value when the
\* poll listed the pipelines.
C1_ChangedPollCountsOneRun ==
  [][\A t \in BagToSet(tasks) :
       (PollEnds(t) /\ NewestDiffers(t))
         => /\ <<t.p.name, t.p.ref>> \in DOMAIN runCount'
            /\ runCount'[<<t.p.name, t.p.ref>>] = t.rc0 + 1]_vars

\* C2: as long as no snapshot of target k has been recorded, no step, the one
\* that records the first snapshot included, leaves run_count{k} above 0.
C2_FirstSnapshotNotCounted ==
  [][\A k \in Targets :
       stored[k] = << >> => (k \in DOMAIN runCount' => runCount'[k] = 0)]_vars

\* C2 witness: a first snapshot of the busy target was recorded, its
\* gauges are set and its run_count reads 0.
C2_Witness ==
  /\ stored[Busy] # << >>
  /\ Busy \in DOMAIN timeSinceLastRun
  /\ Busy \in DOMAIN runCount /\ runCount[Busy] = 0

\* C3: a poll of a Seen target whose newest pipeline has the id and status of
\* the stored snapshot changes neither run_count nor last_run_duration nor a
\* status gauge, and has set nothing when it comes to set time_since_last_run.
C3_UnchangedPollWritesOnlyTime ==
  [][\A t \in BagToSet(tasks) :
       (NewestSame(t) /\ Moved(t))
         => /\ runCount' = runCount
            /\ lastRunDuration' = lastRunDuration
            /\ status' = status
            /\ (PollEnds(t) => t.wrote = {})]_vars

\* the gauge of status value s of target k reads v
StatusReads(k, s, v) ==
  /\ <<k[1], k[2], s>> \in DOMAIN status
  /\ status[<<k[1], k[2], s>>] = v

\* the recognized status values whose gauge of target k reads v
Reading(k, v) == {i \in 1..Len(Recognized) : StatusReads(k, Recognized[i], v)}

\* C4: for every target with a recorded snapshot, exactly one recognized status
\* gauge reads 1 and the other two read 0, in every reachable state.
C4_ExactlyOneStatusActive ==
  \A k \in Targets :
    stored[k] # << >>
      => /\ Cardinality(Reading(k, 1)) = 1
         /\ Cardinality(Reading(k, 0)) = Len(Recognized) - 1

\* goroutine t has set some but not all status gauges of its target
MidLoop(t) == t.pc \in {"status", "set"} /\ t.s > 1

\* goroutine t has set all status gauges of its target
PastLoop(t) == t.lastPipeline # << >> /\ t.pc \in {"time", "panic"}

\* the status of the snapshot the status gauges of target k were last set from
LastStatus(k) ==
  IF \E t \in TasksOf(k) : PastLoop(t)
  THEN (CHOOSE t \in TasksOf(k) : PastLoop(t)).lastPipeline[1].status
  ELSE stored[k][1].status

\* C4 amended: when the polls of a target never overlap, then in every state
\* in which a snapshot of the target was recorded and no poll is part-way
\* through the status loop, each recognized gauge reads 1 if it is the status
\* of the snapshot last recorded and 0 otherwise: exactly one reads 1 for
\* success, failed and running, and all three read 0 for any other status.
C4_StatusGaugesFollowSnapshot ==
  \A k \in Targets :
    ( /\ \A t \in TasksOf(k) : ~MidLoop(t)
      /\ (stored[k] # << >> \/ \E t \in TasksOf(k) : PastLoop(t)) )
      => \A i \in 1..Len(Recognized) :
           StatusReads(k, Recognized[i],
                       IF Recognized[i] = LastStatus(k) THEN 1 ELSE 0)

\* C4 witness: the snapshot recorded for the busy target was running, a later
\* poll has set the gauges from a snapshot that succeeded.
C4_Witness ==
  /\ stored[Busy] # << >> /\ stored[Busy][1].status = "running"
  /\ \E t \in TasksOf(Busy) : PastLoop(t) /\ t.lastPipeline[1].status = "success"
  /\ StatusReads(Busy, "success", 1)
  /\ StatusReads(Busy, "running", 0)

\* no poll of target k has listed a pipeline yet
Unobserved(k) ==
  /\ stored[k] = << >>
  /\ \A t \in TasksOf(k) : t.pipelines = << >>

\* target k has a series in the status vector
HasStatusSeries(k) == \E l \in DOMAIN status : <<l[1], l[2]>> = k

\* C5: a target for which no pipeline was ever observed has no series in any
\* of the four metric families.
C5_NoSeriesBeforeFirstPipeline ==
  \A k \in Targets :
    Unobserved(k)
      => /\ k \notin DOMAIN runCount
         /\ k \notin DOMAIN timeSinceLastRun
         /\ k \notin DOMAIN lastRunDuration
         /\ ~HasStatusSeries(k)

\* C6: a poll whose project fetch or pipeline-list fetch failed has created or
\* set no metric series.
C6_FailedPollWroteNothing ==
  \A t \in BagToSet(tasks) : t.pc = "fatal" => t.wrote = {}

\* the series with label values l of a vector differs between vec and next
SeriesChanged(vec, next, l) ==
  \/ (l \in DOMAIN vec) # (l \in DOMAIN next)
  \/ (l \in DOMAIN vec /\ l \in DOMAIN next /\ vec[l] # next[l])

\* the label values whose series the step creates or changes, in any vector
Written ==
  {l \in DOMAIN timeSinceLastRun \cup DOMAIN timeSinceLastRun' :
     SeriesChanged(timeSinceLastRun, timeSinceLastRun', l)}
  \cup {l \in DOMAIN lastRunDuration \cup DOMAIN lastRunDuration' :
     SeriesChanged(lastRunDuration, lastRunDuration', l)}
  \cup {l \in DOMAIN runCount \cup DOMAIN runCount' :
     SeriesChanged(runCount, runCount', l)}
  \cup {l \in DOMAIN status \cup DOMAIN status' : SeriesChanged(status, status', l)}

\* C7: every series a step creates or changes carries the project and ref of
\* the target of the goroutine that takes the step; the series of every other
\* target are left as they are.
C7_WritesOnlyOwnTarget ==
  [][\A l \in Written :
       \E t \in BagToSet(tasks) :
         Moved(t) /\ t.p.name = l[1] /\ t.p.ref = l[2]]_vars

\* C7 witness: the literal target and both targets of the wildcard expansion
\* have series of their own.
C7_Witness ==
  /\ <<"a", "main">> \in DOMAIN lastRunDuration
  /\ <<"a", "main">> \in DOMAIN runCount
  /\ <<"a", "dev">> \in DOMAIN runCount
  /\ <<"b", "dev">> \in DOMAIN runCount

\* the targets a cycle must poll for config entry j when ListProjects
\* answered with the project paths owned
Due(j, owned) ==
  IF config[j].name # "*" THEN << config[j] >>
  ELSE [n \in 1..Len(owned) |-> [name |-> owned[n], ref |-> config[j].ref]]

\* the bag of fresh goroutines, one per target of the list
Fresh(targets) ==
  [t \in {NewTask(targets[n]) : n \in 1..Len(targets)} |->
     Cardinality({n \in 1..Len(targets) : NewTask(targets[n]) = t})]

\* C8: the step that handles config entry idx starts exactly one goroutine
\* for the entry itself when it is literal, and exactly one per owned project,
\* with the entry's ref, when it is a wildcard; a cycle handles every entry
\* once, in order, and no other step starts a goroutine.
C8_OneTaskPerResolvedTarget ==
  [][/\ (schedPc = "range" /\ idx' # idx)
          => /\ idx' = idx + 1
             /\ tasks' = tasks (+) Fresh(Due(idx, resolved'[idx]))
     /\ (schedPc = "sleep" /\ schedPc' # schedPc) => idx = Len(config) + 1
     /\ BagCardinality(tasks') > BagCardinality(tasks)
          => (schedPc = "range" /\ idx' = idx + 1)]_vars

\* C8 witness: a cycle is over in which the ownership query named two
\* projects; a goroutine polls each of them with the wildcard's ref.
C8_Witness ==
  /\ schedPc = "sleep"
  /\ resolved[2] = <<"a", "b">>
  /\ TasksOf(<<"a", "dev">>) # {}
  /\ TasksOf(<<"b", "dev">>) # {}

\* C9: live goroutines never hold the scheduler back: as long as the process
\* runs, whenever the scheduler sleeps the next cycle can start, and whenever it
\* is at a config entry the goroutines of the entry can start, whatever the
\* number of goroutines that are alive.
C9_SchedulerNeverWaits ==
  /\ (proc = "running" /\ schedPc = "sleep") => ENABLED Sleep
  /\ (proc = "running" /\ schedPc = "range" /\ config[idx].name # "*")
       => ENABLED LaunchLiteral
  /\ (proc = "running" /\ schedPc = "range" /\ config[idx].name = "*")
       => ENABLED LaunchWildcard

\* C9 witness: the cycle has just started a goroutine for the busy target
\* while one of an earlier cycle is still alive (a cycle starts one).
C9_Witness ==
  /\ proc = "running" /\ schedPc = "range" /\ idx = 2
  /\ Alive(Busy) = 2

\* an API call has failed: a goroutine has entered log.Fatalf
ApiFailed ==
  \/ schedPc = "fatal"
  \/ \E t \in BagToSet(tasks) : t.pc = "fatal"

\* C10: once the project fetch, the pipeline-list fetch or the ownership query
\* has failed, no series is created or set, no goroutine is started and the
\* scheduler starts no cycle.
C10_FailureStopsEverything ==
  [][ApiFailed
       => /\ UNCHANGED metricVars
          /\ BagCardinality(tasks') <= BagCardinality(tasks)
          /\ ~(schedPc = "sleep" /\ schedPc' = "range")]_vars

\* the HTTP server has failed: the goroutine of main has entered log.Fatal
ServerFailed == mainPc = "fatal"

\* C10 amended: a goroutine whose call failed takes no further step of its own
\* and can at any moment end the process with os.Exit; the process ends with
\* status 1 only after such a failure or after a failure of the HTTP server,
\* and once it has ended no goroutine takes a step, no series is created or
\* set and the scheduler starts nothing. (Between the failure and the exit the
\* other goroutines go on.)
C10_ExitStopsEverything ==
  [][/\ \A t \in BagToSet(tasks) : t.pc = "fatal" => ~Moved(t)
     /\ schedPc = "fatal"
          => UNCHANGED schedVars /\ BagCardinality(tasks') <= BagCardinality(tasks)
     /\ (ApiFailed /\ proc = "running") => ENABLED Exit
     /\ (proc = "running" /\ proc' = "fatal") => (ApiFailed \/ ServerFailed)
     /\ proc # "running"
          => UNCHANGED << metricVars, tasks, schedVars, proc, mainPc >>]_vars

\* C10 witness: the poll of one target has failed and has ended the process
\* while the poll of another target is between two writes of its status gauges.
C10_Witness ==
  /\ proc = "fatal"
  /\ \E t, u \in BagToSet(tasks) :
       t.pc = "fatal" /\ u.pc = "status" /\ u.s > 1 /\ Key(u.p) # Key(t.p)

\* goroutine t holds the snapshot recorded for its target
HoldsStored(t) ==
  /\ t.lastPipeline # << >>
  /\ t.lastPipeline[1].id = stored[Key(t.p)][1].id
  /\ t.lastPipeline[1].status = stored[Key(t.p)][1].status

\* C11: once a snapshot of a target was recorded the target stays Seen: every
\* later poll of it, when it comes to list the pipelines, holds the snapshot
\* most recently recorded.
C11_LaterPollStartsFromStored ==
  \A t \in BagToSet(tasks) :
    (t.pc = "list" /\ stored[Key(t.p)] # << >>) => HoldsStored(t)

\* C12: a poll fetches the pipeline detail only if no snapshot is stored for
\* its target or the newest pipeline it listed differs from the stored
\* snapshot in id or status.
C12_DetailFetchedOnlyOnChange ==
  \A t \in BagToSet(tasks) :
    t.pc = "detail" => (stored[Key(t.p)] = << >> \/ NewestDiffers(t))

\* the status gauges of target k are the ones a single snapshot of status st
\* leaves behind
GaugesOfOneSnapshot(k, st) ==
  \A i \in 1..Len(Recognized) :
    StatusReads(k, Recognized[i], IF Recognized[i] = st THEN 1 ELSE 0)

\* C13: once every poll of a target has completed, overlapping ones included,
\* its status gauges are those of one single snapshot the platform reported:
\* never a mixture of two, never two gauges at 1.
C13_LastWriteWinsAsAWhole ==
  \A k \in Targets :
    (stored[k] # << >> /\ TasksOf(k) = {})
      => /\ \E st \in gitlab[k].statuses : GaugesOfOneSnapshot(k, st)
         /\ Cardinality(Reading(k, 1)) <= 1

\* C14: when a poll whose writes no other poll of its target interleaved with
\* returns, the gauge of each of success, failed and running reads 1 if it is
\* the status of the snapshot the poll recorded and 0 otherwise (so all three
\* read 0 for a status such as pending), and the target has no status series
\* for any other status value.
C14_CompletedPollSetsThreeGauges ==
  [][\A t \in BagToSet(tasks) :
       PollEnds(t)
         => /\ \A s \in {"success", "failed", "running"} :
                 /\ <<t.p.name, t.p.ref, s>> \in DOMAIN status'
                 /\ status'[<<t.p.name, t.p.ref, s>>] =
                      (IF s = t.lastPipeline[1].status THEN 1 ELSE 0)
            /\ \A l \in DOMAIN status' :
                 (l[1] = t.p.name /\ l[2] = t.p.ref)
                   => l[3] \in {"success", "failed", "running"}]_vars

\* C14 witness: a poll of the busy target recorded a pending snapshot and
\* returned; the three gauges of the target read 0.
C14_Witness ==
  /\ stored[Busy] # << >> /\ stored[Busy][1].status = "pending"
  /\ TasksOf(Busy) = {}
  /\ \A s \in {"success", "failed", "running"} : StatusReads(Busy, s, 0)

\* C15: a goroutine writes nothing to the metric vectors before it has the
\* pipeline list, and nothing between the list and the detail fetch: its steps
\* up to the detail fetch leave every vector as it is.
C15_NoWriteBeforeFetches ==
  [][\A t \in BagToSet(tasks) :
       (Moved(t) /\ t.pc \in {"getProject", "list"})
         => UNCHANGED metricVars]_vars

\* the steps of the scheduler when the ownership query answers and the polls
\* of one target do not overlap
taskLive == LaunchLiteralSolo \/ LaunchWildcardSolo \/ Sleep

\* the steps of the goroutines of taskOnce when every platform call answers
\* without error
taskOnceLive ==
  \/ \E t \in BagToSet(tasks) : GetProjectOk(t)
  \/ \E t \in BagToSet(tasks) : ListProjectPipelinesOk(t)
  \/ \E t \in BagToSet(tasks) : GetPipelineOk(t)
  \/ \E t \in BagToSet(tasks) : SetLastRunDuration(t)
  \/ \E t \in BagToSet(tasks) : StatusWithLabelValues(t)
  \/ \E t \in BagToSet(tasks) : SetStatus(t)
  \/ \E t \in BagToSet(tasks) : TimeSinceLastRunWithLabelValues(t)
  \/ \E t \in BagToSet(tasks) : SetTimeSinceLastRun(t)
  \/ \E t \in BagToSet(tasks) : SetTimeSinceLastRunNil(t)

NextLive == taskLive \/ taskOnceLive \/ Crash

\* the runs of the program in which no platform call returns an error, the
\* polls of one target do not overlap, the sleep of the scheduler ends, and the
\* Go scheduler lets every goroutine run
SpecLive ==
  /\ Init
  /\ [][NextLive]_vars
  /\ WF_vars(taskLive)
  /\ WF_vars(taskOnceLive)
  /\ WF_vars(Crash)

\* the scheduler handles config entry j: it starts the goroutines of the entry
Handles(j) == schedPc = "range" /\ idx = j /\ idx' = j + 1

\* C16: when no platform call fails, the scheduler loop goes on forever: every
\* configured entry is handled, its goroutines started, infinitely often.
C16_EveryEntryPolledForever ==
  \A j \in 1..Len(Configured) : []<><<Handles(j)>>_vars

\* C17: a detail fetch that returns an error, or a pipeline without a creation
\* time, never crashes the process: no goroutine ends in a panic and the
\* process is never brought down by one.
C17_MissingDetailNeverCrashes ==
  /\ proc # "panic"
  /\ \A t \in BagToSet(tasks) : t.pc # "panic"

\* the target keys of a list of targets
Keys(targets) == {Key(targets[n]) : n \in 1..Len(targets)}

\* C18: within one cycle at most one goroutine is started per target key: the
\* step that handles a config entry starts no two goroutines for one key, and
\* none for a key that an earlier entry of the same cycle started one for.
C18_OneTaskPerKeyPerCycle ==
  [][(schedPc = "range" /\ idx' = idx + 1)
       => LET now == Due(idx, resolved'[idx])
          IN /\ Cardinality(Keys(now)) = Len(now)
             /\ \A j \in 1..(idx - 1) :
                  Keys(Due(j, resolved[j])) \cap Keys(now) = {}]_vars

====
